---- MODULE Spec2Model ----
(***************************************************************************)
(* Folder-Sync-Python (src/app.py): a one-way mirror of a source folder    *)
(* into a replica folder.  The model has one file system (a map from       *)
(* absolute paths to nodes), the append-only log, and one frame of         *)
(* sync_folders per thread that can call it: the main thread (initial      *)
(* pass and 30 s timer loop) and the watchdog observer thread              *)
(* (SyncHandler.on_any_event).  Every file system call of sync_folders is  *)
(* one atomic step, so the check before an operation (os.path.exists) and  *)
(* the operation itself (makedirs, copy2, remove, rmtree) can be           *)
(* interleaved with the other thread and with an external writer.          *)
(***************************************************************************)
EXTENDS Naturals, Sequences, FiniteSets, TLC

(***************************************************************************)
(* Bounds of the model.                                                    *)
(***************************************************************************)
\* calls of sync_folders in a row by one thread (SpecSeq, SpecE2E)
MaxPasses == 2
\* calls of sync_folders in one run of the program (Spec)
MaxCalls == 3
\* changes made to the source tree by an external writer in one run
MaxExt == 1
\* watchdog events waiting in the observer's queue
MaxEvents == 2

(***************************************************************************)
(* Paths.  A path is the sequence of its components; <<>> is the directory *)
(* that holds the source folder, the replica folder and the log file.      *)
(***************************************************************************)
BaseDir == <<>>

\* main: source_folder = args.source_folder
source_folder == <<"data">>

\* main: replica_folder = dirname(source_folder)/basename(source_folder)_sync
replica_folder == <<"data_sync">>

\* main: log_file_path = dirname(source_folder)/sync.log
log_file == <<"sync.log">>

\* the paths below a root that the model's file system can hold
RelPaths == { <<"a.txt">>, <<"sub">>, <<"sub", "b.txt">>, <<"sub", "sync.log">> }

FsPaths ==
    {source_folder, replica_folder}
        \cup {source_folder \o r : r \in RelPaths}
        \cup {replica_folder \o r : r \in RelPaths}

Contents == {"hello", "world"}

\* os.path.dirname
dirname(p) == IF p = <<>> THEN <<>> ELSE SubSeq(p, 1, Len(p) - 1)

\* os.path.basename
basename(p) == IF p = <<>> THEN "" ELSE p[Len(p)]

\* os.path.join(dirpath, name)
join(d, n) == Append(d, n)

IsPrefix(pre, p) == Len(pre) <= Len(p) /\ SubSeq(p, 1, Len(pre)) = pre

\* str.replace(old, new, 1) on a path that is walked from the root `old`: the
\* first occurrence of `old` is the leading one; a path that does not contain
\* `old` is returned unchanged
replace(p, old, new) ==
    IF IsPrefix(old, p) THEN new \o SubSeq(p, Len(old) + 1, Len(p)) ELSE p

\* the path relative to the root it lies under (source or replica)
Rel(p) == SubSeq(p, 2, Len(p))

(***************************************************************************)
(* Path strings.  The argument of main is a string, and lines 143 and 146  *)
(* derive the replica folder and the log file from it with os.path.dirname,*)
(* os.path.basename and os.path.join (posixpath), which work on the        *)
(* characters.  A string is modelled as the sequence of its pieces: the    *)
(* separator "/" and pieces of names; neighbouring name pieces make up one *)
(* name ("data" followed by "_sync" is the name data_sync).                *)
(***************************************************************************)
\* the longest argument, in pieces
MaxArgLen == 5

Sep == "/"

NamePieces == {".", "w", "data"}

\* the directories that exist, as sequences of names from the root, and the
\* working directory
ExistingDirs == {<<>>, <<"w">>, <<"w", "data">>}
Cwd == <<"w">>

\* s.rfind("/") + 1
AfterLastSep(s) ==
    LET I == {i \in 1..Len(s) : s[i] = Sep}
    IN  IF I = {} THEN 0 ELSE CHOOSE i \in I : \A j \in I : j <= i

\* s.rstrip("/")
rstrip(s) ==
    LET I == {i \in 1..Len(s) : s[i] # Sep}
    IN  IF I = {} THEN <<>> ELSE SubSeq(s, 1, CHOOSE i \in I : \A j \in I : j <= i)

\* posixpath.dirname: the part up to the last separator, without its
\* trailing separators unless it consists of separators
str_dirname(s) ==
    LET head == SubSeq(s, 1, AfterLastSep(s))
    IN  IF head # <<>> /\ rstrip(head) # <<>> THEN rstrip(head) ELSE head

\* posixpath.basename: the part after the last separator
str_basename(s) == SubSeq(s, AfterLastSep(s) + 1, Len(s))

\* posixpath.join(a, b)
str_join(a, b) ==
    IF b # <<>> /\ b[1] = Sep THEN b
    ELSE IF a = <<>> \/ a[Len(a)] = Sep THEN a \o b
    ELSE a \o <<Sep>> \o b

\* lines 142-146: source_folder, replica_folder and log_file_path for the
\* argument arg
MainPaths(arg) ==
    [source_folder |-> arg,
     replica_folder |-> str_join(str_dirname(arg), str_basename(arg) \o <<"_sync">>),
     log_file_path |-> str_join(str_dirname(arg), <<"sync.log">>)]

\* the names between the separators of a string, in order
RECURSIVE Segments(_)
Segments(s) ==
    IF s = <<>> THEN <<>>
    ELSE IF Head(s) = Sep THEN Segments(Tail(s))
    ELSE LET I == {i \in 1..Len(s) : s[i] = Sep}
             n == IF I = {} THEN Len(s) + 1 ELSE CHOOSE i \in I : \A j \in I : i <= j
         IN  <<SubSeq(s, 1, n - 1)>> \o Segments(SubSeq(s, n, Len(s)))

\* the place a string names, as the kernel resolves it: the names from the
\* root, "." dropped, a relative string taken from the working directory
Resolve(s) ==
    (IF s # <<>> /\ s[1] = Sep THEN <<>> ELSE [i \in 1..Len(Cwd) |-> <<Cwd[i]>>])
        \o SelectSeq(Segments(s), LAMBDA g : g # <<".">>)

\* the arguments that name an existing directory: every name is one piece
ArgPaths ==
    {s \in UNION {[1..k -> NamePieces \cup {Sep}] : k \in 1..MaxArgLen} :
        /\ \A i \in 1..(Len(s) - 1) : s[i] = Sep \/ s[i + 1] = Sep
        /\ \E d \in ExistingDirs : Resolve(s) = [i \in 1..Len(d) |-> <<d[i]>>]}

(***************************************************************************)
(* File system nodes.                                                      *)
(***************************************************************************)
Absent == [kind |-> "absent", content |-> "", mtime |-> ""]
Dir == [kind |-> "dir", content |-> "", mtime |-> ""]
File(c, m) == [kind |-> "file", content |-> c, mtime |-> m]

\* modification times: of the files of the initial source tree, of the files
\* of the initial replica tree, and of a file an external writer wrote later
Mtimes == {"t_source", "t_replica", "t_written"}

Nodes == {Absent, Dir} \cup {File(c, m) : c \in Contents, m \in Mtimes}

\* os.path.exists
exists(f, p) == p = BaseDir \/ (p \in DOMAIN f /\ f[p].kind # "absent")

isdir(f, p) == p = BaseDir \/ (p \in DOMAIN f /\ f[p].kind = "dir")

isfile(f, p) == p \in DOMAIN f /\ f[p].kind = "file"

\* every present node has a directory as its parent
WellFormed(f) ==
    \A p \in DOMAIN f : f[p].kind # "absent" => isdir(f, dirname(p))

\* entries of directory d, as os.scandir lists them
Children(f, d) == {p \in DOMAIN f : dirname(p) = d /\ p # d /\ f[p].kind # "absent"}

\* hashlib.md5(content).hexdigest()
md5 ==
    [c \in Contents |->
        IF c = "hello" THEN "5d41402abc4b2a76b9719d911017c592"
                       ELSE "7d793037a0760186574b0282f2f435e7"]

\* the result of a file system call: the error it raised ("none": it
\* returned), and the file system it leaves
Ok(f) == [err |-> "none", fs |-> f]
Raise(e, f) == [err |-> e, fs |-> f]

\* calculate_hash with the read loop never entered: every file gets the
\* digest of the empty input
calculate_hash_empty(f, p) ==
    IF ~exists(f, p) THEN [err |-> "FileNotFoundError", digest |-> ""]
    ELSE IF isdir(f, p) THEN [err |-> "IsADirectoryError", digest |-> ""]
    ELSE [err |-> "none", digest |-> "d41d8cd98f00b204e9800998ecf8427e"]

\* calculate_hash(file_path): open(file_path, "rb") and digest the content
calculate_hash(f, p) ==
    IF ~exists(f, p) THEN [err |-> "FileNotFoundError", digest |-> ""]
    ELSE IF isdir(f, p) THEN [err |-> "IsADirectoryError", digest |-> ""]
    ELSE [err |-> "none", digest |-> md5[f[p].content]]

\* os.mkdir
mkdir(f, p) ==
    IF exists(f, p) THEN Raise("FileExistsError", f)
    ELSE IF ~exists(f, dirname(p)) THEN Raise("FileNotFoundError", f)
    ELSE IF ~isdir(f, dirname(p)) THEN Raise("NotADirectoryError", f)
    ELSE Ok([f EXCEPT ![p] = Dir])

\* os.makedirs(name): create the missing ancestors, then mkdir(name)
RECURSIVE makedirs(_, _)
makedirs(f, p) ==
    IF dirname(p) # BaseDir /\ ~exists(f, dirname(p))
    THEN LET head == makedirs(f, dirname(p))
         IN  IF head.err # "none" THEN head ELSE mkdir(head.fs, p)
    ELSE mkdir(f, p)

\* shutil.copy2(src, dst): content and modification time.  (A dst that is a
\* directory is reported as an error here; copy2 would copy into it, but no
\* run of the model reaches it: the replica path of a listed source file is
\* a directory only when a pass is given a replica directory where the
\* source has a file, and then calculate_hash raises first.)
copy2(f, src, dst) ==
    IF ~exists(f, src) THEN Raise("FileNotFoundError", f)
    ELSE IF isdir(f, src) THEN Raise("IsADirectoryError", f)
    ELSE IF isdir(f, dst) THEN Raise("IsADirectoryError", f)
    ELSE IF ~exists(f, dirname(dst)) THEN Raise("FileNotFoundError", f)
    ELSE IF ~isdir(f, dirname(dst)) THEN Raise("NotADirectoryError", f)
    ELSE Ok([f EXCEPT ![dst] = f[src]])

\* os.remove
remove(f, p) ==
    IF ~exists(f, p) THEN Raise("FileNotFoundError", f)
    ELSE IF isdir(f, p) THEN Raise("IsADirectoryError", f)
    ELSE Ok([f EXCEPT ![p] = Absent])

\* shutil.rmtree: the directory and everything below it
rmtree(f, p) ==
    IF ~exists(f, p) THEN Raise("FileNotFoundError", f)
    ELSE IF ~isdir(f, p) THEN Raise("NotADirectoryError", f)
    ELSE Ok([q \in DOMAIN f |-> IF IsPrefix(p, q) THEN Absent ELSE f[q]])

(***************************************************************************)
(* State.                                                                  *)
(***************************************************************************)
VARIABLES
    fs,         \* the file system: FsPaths -> Nodes
    log,        \* the log file: the lines logging.info appended
    th,         \* thread -> its frame of sync_folders
    calls,      \* calls of sync_folders made so far
    ext,        \* the changes an external writer made to the source tree
    fs0,        \* the file system at the start of the run
    mainpc,     \* where the main thread is in main()
    observer,   \* the state of the watchdog observer thread
    queue,      \* the observer's event queue
    logging,    \* whether setup_logging has configured the log file
    paths       \* the path strings of main: the argument and what is derived from it

vars == <<fs, log, th, calls, ext, fs0, mainpc, observer, queue, logging, paths>>

\* the state of main() and of the observer
procvars == <<mainpc, observer, queue, logging>>

\* the threads that call sync_folders: main (lines 156, 167) and the
\* observer thread (SyncHandler.on_any_event, line 126)
Threads == {"main", "observer"}

\* all orders in which os.scandir may list the names S
Orderings(S) ==
    {o \in [1..Cardinality(S) -> S] : \A i, j \in 1..Cardinality(S) : o[i] = o[j] => i = j}

\* an entry of os.walk's stack: a directory still to be listed, or (bottom-up)
\* a listed directory waiting to be yielded after its subdirectories
ToList(p) == [top |-> p, listed |-> FALSE, dirs |-> <<>>, nondirs |-> <<>>]
Listed(p, ds, fl) == [top |-> p, listed |-> TRUE, dirs |-> ds, nondirs |-> fl]

\* the frame of a thread that is not inside sync_folders.  pc is the place
\* in sync_folders; stack is os.walk's; dirpath, dirnames, filenames are what
\* os.walk yielded last (dirnames and filenames: what the loop over them has
\* not reached yet); name is the filename or dirname being handled;
\* source_files holds the keys of the dictionary of line 38; err and
\* failed_at are the exception that left sync_folders and the place it was
\* raised; fs_start, log_start and nmut record the file system and the
\* length of the log at the call and the changes made since
IdleFrame ==
    [pc |-> "idle", stack |-> <<>>, dirpath |-> <<>>, dirnames |-> <<>>,
     filenames |-> <<>>, name |-> "", source_files |-> {}, err |-> "none",
     failed_at |-> "",
     fs_start |-> <<>>, log_start |-> 0, nmut |-> 0]

\* the frame on entry to sync_folders (line 26); os.walk(source_folder) of
\* line 39 lists nothing before its first step
EntryFrame ==
    [IdleFrame EXCEPT !.pc = "check_root", !.stack = <<ToList(source_folder)>>,
                      !.fs_start = fs, !.log_start = Len(log)]

InPass(t) == th[t].pc \notin {"idle", "done", "failed"}

\* the process is alive: the main thread has neither returned nor died (the
\* observer's threads are daemon threads and end with it)
Running == mainpc \notin {"exited", "crashed"}

\* thread t is at label l of sync_folders
At(t, l) == Running /\ th[t].pc = l

\* sync_folders(source_folder, replica_folder, log_file) is called by thread t
Call(t) ==
    /\ calls' = calls + 1
    /\ th' = [th EXCEPT ![t] = EntryFrame]
    /\ UNCHANGED <<fs, log, ext, fs0, paths>>

\* logging.info(f"{msg}: {path}")
LogLine(msg, path) == [msg |-> msg, path |-> path]

\* thread t goes on at label l without touching the file system
Goto(t, l) ==
    /\ th' = [th EXCEPT ![t].pc = l]
    /\ UNCHANGED <<fs, log, calls, ext, fs0, paths, procvars>>

\* thread t ran a file system call with result r: the exception, if any,
\* leaves sync_folders (nothing in it catches); else the line is logged
Effect(t, r, msg, path, l) ==
    /\ UNCHANGED <<calls, ext, fs0, paths, procvars>>
    /\ fs' = r.fs
    /\ IF r.err = "none"
       THEN /\ log' = Append(log, LogLine(msg, path))
            /\ th' = [th EXCEPT ![t].pc = l, ![t].nmut = @ + 1]
       ELSE /\ log' = log
            /\ th' = [th EXCEPT ![t].pc = "failed", ![t].err = r.err,
                                ![t].failed_at = th[t].pc]

\* replica_dirpath = dirpath.replace(source_folder, replica_folder, 1)
replica_dirpath(t) == replace(th[t].dirpath, source_folder, replica_folder)

\* lines 34-36: if not os.path.exists(replica_folder) [one step], then
\* os.makedirs(replica_folder) [one step]
EnsureRoot(t) ==
    /\ Running /\ th[t].pc \in {"check_root", "make_root"}
    /\ IF th[t].pc = "check_root"
       THEN Goto(t, IF exists(fs, replica_folder) THEN "walk1" ELSE "make_root")
       ELSE Effect(t, makedirs(fs, replica_folder), "Directory created",
                   replica_folder, "walk1")

\* one step of os.walk(top): take the next directory off the stack and list
\* it (a directory that cannot be listed is skipped: onerror is None); when
\* the walk is exhausted go on at `after` with the walk of `next_top` ready
WalkTopDown(t, here, body, after, next_top) ==
    /\ th[t].pc = here
    /\ UNCHANGED <<fs, log, calls, ext, fs0, paths, procvars>>
    /\ IF th[t].stack = <<>>
       THEN th' = [th EXCEPT ![t].pc = after, ![t].stack = <<ToList(next_top)>>]
       ELSE LET top == Head(th[t].stack).top
                ds == {basename(c) : c \in {c \in Children(fs, top) : isdir(fs, c)}}
                fl == {basename(c) : c \in {c \in Children(fs, top) : ~isdir(fs, c)}}
            IN  IF ~isdir(fs, top)
                THEN th' = [th EXCEPT ![t].stack = Tail(@)]
                ELSE \E dirs \in Orderings(ds), nondirs \in Orderings(fl) :
                        th' = [th EXCEPT
                                 ![t].pc = body,
                                 ![t].dirpath = top,
                                 ![t].dirnames = dirs,
                                 ![t].filenames = nondirs,
                                 ![t].stack =
                                     [i \in 1..Len(dirs) |-> ToList(join(top, dirs[i]))]
                                         \o Tail(@)]

\* line 39: for dirpath, dirnames, filenames in os.walk(source_folder)
Walk1(t) == WalkTopDown(t, "walk1", "check_dir1", "walk2", source_folder)

\* lines 42-44: if not os.path.exists(replica_dirpath) [one step], then
\* os.makedirs(replica_dirpath) [one step]
EnsureDir1(t) ==
    /\ Running /\ th[t].pc \in {"check_dir1", "make_dir1"}
    /\ IF th[t].pc = "check_dir1"
       THEN Goto(t, IF exists(fs, replica_dirpath(t)) THEN "file1" ELSE "make_dir1")
       ELSE Effect(t, makedirs(fs, replica_dirpath(t)), "Directory created",
                   replica_dirpath(t), "file1")

source_file(t) == join(th[t].dirpath, th[t].name)

\* File1 with key and value of source_files swapped:
\* source_files[source_file] = replica_file
File1_swapped(t) ==
    /\ At(t, "file1")
    /\ UNCHANGED <<fs, log, calls, ext, fs0, paths, procvars>>
    /\ IF th[t].filenames = <<>>
       THEN th' = [th EXCEPT ![t].pc = "walk1"]
       ELSE LET filename == Head(th[t].filenames)
                replica_file == join(replica_dirpath(t), filename)
            IN  IF filename = basename(log_file)
                THEN th' = [th EXCEPT ![t].filenames = Tail(@)]
                ELSE th' = [th EXCEPT
                              ![t].filenames = Tail(@),
                              ![t].name = filename,
                              ![t].source_files = @ \cup {join(th[t].dirpath, filename)},
                              ![t].pc = IF exists(fs, replica_file)
                                        THEN "hash1" ELSE "copy1"]

\* lines 46-53: the next filename of the directory; one with the log file's
\* name is skipped; else it is recorded in source_files and looked up in the
\* replica
File1(t) ==
    /\ At(t, "file1")
    /\ UNCHANGED <<fs, log, calls, ext, fs0, paths, procvars>>
    /\ IF th[t].filenames = <<>>
       THEN th' = [th EXCEPT ![t].pc = "walk1"]
       ELSE LET filename == Head(th[t].filenames)
                replica_file == join(replica_dirpath(t), filename)
            IN  IF filename = basename(log_file)
                THEN th' = [th EXCEPT ![t].filenames = Tail(@)]
                ELSE th' = [th EXCEPT
                              ![t].filenames = Tail(@),
                              ![t].name = filename,
                              ![t].source_files = @ \cup {replica_file},
                              ![t].pc = IF exists(fs, replica_file)
                                        THEN "hash1" ELSE "copy1"]

replica_file(t) == join(replica_dirpath(t), th[t].name)

\* lines 54-55: shutil.copy2(source_file, replica_file)
Copy1(t) ==
    /\ At(t, "copy1")
    /\ Effect(t, copy2(fs, source_file(t), replica_file(t)), "File copied",
              replica_file(t), "file1")

\* Hash1 deciding by modification time as well as by digest
Hash1_mtime(t) ==
    /\ At(t, "hash1")
    /\ UNCHANGED <<fs, log, calls, ext, fs0, paths, procvars>>
    /\ LET hs == calculate_hash(fs, source_file(t))
           hr == calculate_hash(fs, replica_file(t))
       IN  IF hs.err # "none"
           THEN th' = [th EXCEPT ![t].pc = "failed", ![t].err = hs.err,
                                 ![t].failed_at = "hash1"]
           ELSE IF hr.err # "none"
           THEN th' = [th EXCEPT ![t].pc = "failed", ![t].err = hr.err,
                                 ![t].failed_at = "hash1"]
           ELSE th' = [th EXCEPT ![t].pc =
                          IF \/ hs.digest # hr.digest
                             \/ fs[source_file(t)].mtime # fs[replica_file(t)].mtime
                          THEN "update1" ELSE "file1"]

\* line 57: if calculate_hash(source_file) != calculate_hash(replica_file)
Hash1(t) ==
    /\ At(t, "hash1")
    /\ UNCHANGED <<fs, log, calls, ext, fs0, paths, procvars>>
    /\ LET hs == calculate_hash(fs, source_file(t))
           hr == calculate_hash(fs, replica_file(t))
       IN  IF hs.err # "none"
           THEN th' = [th EXCEPT ![t].pc = "failed", ![t].err = hs.err,
                                 ![t].failed_at = "hash1"]
           ELSE IF hr.err # "none"
           THEN th' = [th EXCEPT ![t].pc = "failed", ![t].err = hr.err,
                                 ![t].failed_at = "hash1"]
           ELSE th' = [th EXCEPT ![t].pc = IF hs.digest # hr.digest
                                           THEN "update1" ELSE "file1"]

\* lines 58-59: shutil.copy2(source_file, replica_file)
Update1(t) ==
    /\ At(t, "update1")
    /\ Effect(t, copy2(fs, source_file(t), replica_file(t)), "File updated",
              replica_file(t), "file1")

\* line 62: for dirpath, dirnames, filenames in os.walk(source_folder)
Walk2(t) == WalkTopDown(t, "walk2", "check_dir2", "walk3", replica_folder)

\* lines 65-67: if not os.path.exists(replica_dirpath) [one step], then
\* os.makedirs(replica_dirpath) [one step]
EnsureDir2(t) ==
    /\ Running /\ th[t].pc \in {"check_dir2", "make_dir2"}
    /\ IF th[t].pc = "check_dir2"
       THEN Goto(t, IF exists(fs, replica_dirpath(t)) THEN "file2" ELSE "make_dir2")
       ELSE Effect(t, makedirs(fs, replica_dirpath(t)), "Directory created",
                   replica_dirpath(t), "file2")

\* lines 69-73: the next filename of the directory (every one: this loop has
\* no test for the log file's name), looked up in the replica
File2(t) ==
    /\ At(t, "file2")
    /\ UNCHANGED <<fs, log, calls, ext, fs0, paths, procvars>>
    /\ IF th[t].filenames = <<>>
       THEN th' = [th EXCEPT ![t].pc = "walk2"]
       ELSE LET filename == Head(th[t].filenames)
            IN  th' = [th EXCEPT
                         ![t].filenames = Tail(@),
                         ![t].name = filename,
                         ![t].pc = IF exists(fs, join(replica_dirpath(t), filename))
                                   THEN "file2" ELSE "restore2"]

\* lines 74-75: shutil.copy2(source_file, replica_file)
Restore2(t) ==
    /\ At(t, "restore2")
    /\ Effect(t, copy2(fs, source_file(t), replica_file(t)), "File restored",
              replica_file(t), "file2")

\* line 78: one step of os.walk(replica_folder, topdown=False): a directory
\* is listed when the walk reaches it and yielded after the walk of the
\* subdirectories it then had
Walk3(t) ==
    /\ At(t, "walk3")
    /\ UNCHANGED <<fs, log, calls, ext, fs0, paths, procvars>>
    /\ IF th[t].stack = <<>>
       THEN th' = [th EXCEPT ![t].pc = "done"]
       ELSE LET e == Head(th[t].stack)
                ds == {basename(c) : c \in {c \in Children(fs, e.top) : isdir(fs, c)}}
                fl == {basename(c) : c \in {c \in Children(fs, e.top) : ~isdir(fs, c)}}
            IN  IF e.listed
                THEN th' = [th EXCEPT
                              ![t].pc = "file3",
                              ![t].dirpath = e.top,
                              ![t].dirnames = e.dirs,
                              ![t].filenames = e.nondirs,
                              ![t].stack = Tail(@)]
                ELSE IF ~isdir(fs, e.top)
                THEN th' = [th EXCEPT ![t].stack = Tail(@)]
                ELSE \E dirs \in Orderings(ds), nondirs \in Orderings(fl) :
                        th' = [th EXCEPT
                                 ![t].stack =
                                     [i \in 1..Len(dirs) |-> ToList(join(e.top, dirs[i]))]
                                         \o <<Listed(e.top, dirs, nondirs)>> \o Tail(@)]

\* lines 79-82: the next filename of the replica directory: it is deleted if
\* it is not a key of source_files and still exists
File3(t) ==
    /\ At(t, "file3")
    /\ UNCHANGED <<fs, log, calls, ext, fs0, paths, procvars>>
    /\ IF th[t].filenames = <<>>
       THEN th' = [th EXCEPT ![t].pc = "dir3"]
       ELSE LET filename == Head(th[t].filenames)
                file == join(th[t].dirpath, filename)
            IN  th' = [th EXCEPT
                         ![t].filenames = Tail(@),
                         ![t].name = filename,
                         ![t].pc = IF file \notin th[t].source_files /\ exists(fs, file)
                                   THEN "remove3" ELSE "file3"]

\* lines 83-84: os.remove(replica_file)
Remove3(t) ==
    /\ At(t, "remove3")
    /\ Effect(t, remove(fs, join(th[t].dirpath, th[t].name)), "File deleted",
              join(th[t].dirpath, th[t].name), "file3")

\* Dir3 without the replace of line 88: the replica directory itself is
\* tested for existence
Dir3_unreplaced(t) ==
    /\ At(t, "dir3")
    /\ UNCHANGED <<fs, log, calls, ext, fs0, paths, procvars>>
    /\ IF th[t].dirnames = <<>>
       THEN th' = [th EXCEPT ![t].pc = "walk3"]
       ELSE LET dirname3 == Head(th[t].dirnames)
                source_dir == join(th[t].dirpath, dirname3)
            IN  th' = [th EXCEPT
                         ![t].dirnames = Tail(@),
                         ![t].name = dirname3,
                         ![t].pc = IF exists(fs, source_dir) THEN "dir3" ELSE "rmtree3"]

\* lines 86-89: the next dirname of the replica directory: it is deleted if
\* source_dir = replica_dirpath.replace(replica_folder, source_folder, 1)
\* does not exist
Dir3(t) ==
    /\ At(t, "dir3")
    /\ UNCHANGED <<fs, log, calls, ext, fs0, paths, procvars>>
    /\ IF th[t].dirnames = <<>>
       THEN th' = [th EXCEPT ![t].pc = "walk3"]
       ELSE LET dirname3 == Head(th[t].dirnames)
                source_dir == replace(join(th[t].dirpath, dirname3),
                                      replica_folder, source_folder)
            IN  th' = [th EXCEPT
                         ![t].dirnames = Tail(@),
                         ![t].name = dirname3,
                         ![t].pc = IF exists(fs, source_dir) THEN "dir3" ELSE "rmtree3"]

\* lines 90-91: shutil.rmtree(replica_dirpath)
Rmtree3(t) ==
    /\ At(t, "rmtree3")
    /\ Effect(t, rmtree(fs, join(th[t].dirpath, th[t].name)), "Directory deleted",
              join(th[t].dirpath, th[t].name), "dir3")

\* one step of sync_folders in thread t (lines 34-91)
sync_folders(t) ==
    \/ EnsureRoot(t)
    \/ Walk1(t) \/ EnsureDir1(t) \/ File1(t)
    \/ Copy1(t) \/ Hash1(t) \/ Update1(t)
    \/ Walk2(t) \/ EnsureDir2(t) \/ File2(t) \/ Restore2(t)
    \/ Walk3(t) \/ File3(t) \/ Remove3(t) \/ Dir3(t) \/ Rmtree3(t)

(***************************************************************************)
(* The external writer: another process that changes the source tree.      *)
(* While the observer is scheduled on source_folder (lines 161-162) a      *)
(* change puts its events into the observer's queue: the event of the      *)
(* entry, then the "modified" event of the directory that holds it (for a  *)
(* rewritten file: "modified", then "closed").  The queue skips an event   *)
(* equal to the one put last.                                              *)
(***************************************************************************)
ExtOp(op, path) == [op |-> op, path |-> path, after |-> calls]

Event(op, path) == [op |-> op, path |-> path]

\* the events of one change
Events(op, path) ==
    IF op = "modified"
    THEN <<Event("modified", path), Event("closed", path)>>
    ELSE <<Event(op, path), Event("modified", dirname(path))>>

Watching == observer \in {"waiting", "handling"}

\* SkipRepeatsQueue.put
put(q, e) == IF q # <<>> /\ q[Len(q)] = e THEN q ELSE Append(q, e)

Notify(op, path) ==
    IF Watching
    THEN put(put(queue, Events(op, path)[1]), Events(op, path)[2])
    ELSE queue

\* room for one more change and its events
ExtRoom == Len(ext) < MaxExt /\ Len(queue) + 2 <= MaxEvents

InSource(p) == IsPrefix(source_folder, p) /\ p # source_folder

\* a file of the source tree is deleted
ExternalDelete(p) ==
    /\ ExtRoom
    /\ InSource(p) /\ isfile(fs, p)
    /\ fs' = [fs EXCEPT ![p] = Absent]
    /\ ext' = Append(ext, ExtOp("delete", p))
    /\ queue' = Notify("deleted", p)
    /\ UNCHANGED <<log, th, calls, fs0, paths, mainpc, observer, logging>>

\* a file of the source tree is created or rewritten
ExternalWrite(p, c) ==
    /\ ExtRoom
    /\ InSource(p) /\ isdir(fs, dirname(p)) /\ ~isdir(fs, p)
    /\ fs' = [fs EXCEPT ![p] = File(c, "t_written")]
    /\ ext' = Append(ext, ExtOp("write", p))
    /\ queue' = Notify(IF exists(fs, p) THEN "modified" ELSE "created", p)
    /\ UNCHANGED <<log, th, calls, fs0, paths, mainpc, observer, logging>>

\* a directory of the source tree is deleted with everything below it
ExternalRmtree(p) ==
    /\ ExtRoom
    /\ InSource(p) /\ isdir(fs, p)
    /\ fs' = rmtree(fs, p).fs
    /\ ext' = Append(ext, ExtOp("rmtree", p))
    /\ queue' = Notify("deleted", p)
    /\ UNCHANGED <<log, th, calls, fs0, paths, mainpc, observer, logging>>

(***************************************************************************)
(* main() and the observer thread.                                         *)
(***************************************************************************)
\* lines 142-146: the paths are derived from the argument
MainDerivePaths ==
    /\ mainpc = "parse"
    /\ paths' = MainPaths(paths.source_folder)
    /\ mainpc' = "start"
    /\ UNCHANGED <<fs, log, th, calls, ext, fs0, observer, queue, logging>>

\* MainCheckSource without the test of line 148
MainCheckSource_unchecked ==
    /\ mainpc = "start"
    /\ mainpc' = "setup_logging"
    /\ UNCHANGED <<fs, log, th, calls, ext, fs0, paths, observer, queue, logging>>

\* lines 148-150: if not os.path.exists(source_folder): print; return
MainCheckSource ==
    /\ mainpc = "start"
    /\ mainpc' = IF exists(fs, source_folder) THEN "setup_logging" ELSE "exited"
    /\ UNCHANGED <<fs, log, th, calls, ext, fs0, paths, observer, queue, logging>>

\* line 153: setup_logging(log_file_path)
MainSetupLogging ==
    /\ mainpc = "setup_logging"
    /\ logging' = TRUE
    /\ mainpc' = "initial_sync"
    /\ UNCHANGED <<fs, log, th, calls, ext, fs0, paths, observer, queue>>

\* line 156: sync_folders(source_folder, replica_folder, log_file_path)
MainInitialSync ==
    /\ mainpc = "initial_sync"
    /\ calls < MaxCalls
    /\ Call("main")
    /\ mainpc' = "in_initial_sync"
    /\ UNCHANGED <<observer, queue, logging>>

\* lines 159-162: the observer is scheduled on source_folder and started
MainStartObserver ==
    /\ mainpc = "start_observer"
    /\ observer' = "waiting"
    /\ mainpc' = "sleep"
    /\ UNCHANGED <<fs, log, th, calls, ext, fs0, paths, queue, logging>>

\* lines 166-167: time.sleep(30) returns and sync_folders is called
MainTimer ==
    /\ mainpc = "sleep"
    /\ calls < MaxCalls
    /\ Call("main")
    /\ mainpc' = "in_timer_sync"
    /\ UNCHANGED <<observer, queue, logging>>

\* sync_folders returns to main (lines 156, 167), or raises: nothing in main
\* catches an exception other than KeyboardInterrupt, so the main thread dies
MainReturn ==
    /\ mainpc \in {"in_initial_sync", "in_timer_sync"}
    /\ th["main"].pc \in {"done", "failed"}
    /\ mainpc' = IF th["main"].pc = "failed" THEN "crashed"
                 ELSE IF mainpc = "in_initial_sync" THEN "start_observer"
                 ELSE "sleep"
    /\ UNCHANGED <<fs, log, th, calls, ext, fs0, paths, observer, queue, logging>>

\* KeyboardInterrupt is raised in the main thread: inside the try of lines
\* 164-167 it is caught (line 168), anywhere before it kills the main thread;
\* a call of sync_folders it interrupts is abandoned where it is
Interrupt ==
    /\ mainpc \in {"setup_logging", "initial_sync", "in_initial_sync",
                   "start_observer", "sleep", "in_timer_sync"}
    /\ mainpc' = IF mainpc \in {"sleep", "in_timer_sync"}
                 THEN "stop_observer" ELSE "crashed"
    /\ th' = IF InPass("main")
             THEN [th EXCEPT !["main"].pc = "failed",
                             !["main"].err = "KeyboardInterrupt",
                             !["main"].failed_at = th["main"].pc]
             ELSE th
    /\ UNCHANGED <<fs, log, calls, ext, fs0, paths, observer, queue, logging>>

\* MainStopObserver without the call of observer.stop()
MainStopObserver_nostop ==
    /\ mainpc = "stop_observer"
    /\ mainpc' = "join"
    /\ UNCHANGED <<fs, log, th, calls, ext, fs0, paths, observer, queue, logging>>

\* line 169: observer.stop(): the observer thread ends after the event it
\* is handling
MainStopObserver ==
    /\ mainpc = "stop_observer"
    /\ observer' = IF observer = "handling" THEN "stopping"
                   ELSE IF observer = "waiting" THEN "stopped"
                   ELSE observer
    /\ mainpc' = "join"
    /\ UNCHANGED <<fs, log, th, calls, ext, fs0, paths, queue, logging>>

\* line 171: observer.join()
MainJoin ==
    /\ mainpc = "join"
    /\ observer \in {"stopped", "dead"}
    /\ mainpc' = "exited"
    /\ UNCHANGED <<fs, log, th, calls, ext, fs0, paths, observer, queue, logging>>

\* lines 125-126: the observer thread takes the next event off its queue and
\* calls on_any_event, which calls sync_folders
on_any_event ==
    /\ Running
    /\ observer = "waiting"
    /\ queue # <<>>
    /\ calls < MaxCalls
    /\ Call("observer")
    /\ queue' = Tail(queue)
    /\ observer' = "handling"
    /\ UNCHANGED <<mainpc, logging>>

\* on_any_event returns and the observer thread waits for the next event, or
\* it raises and the observer thread dies
ObserverReturn ==
    /\ Running
    /\ observer \in {"handling", "stopping"}
    /\ th["observer"].pc \in {"done", "failed"}
    /\ observer' = IF th["observer"].pc = "failed" THEN "dead"
                   ELSE IF observer = "handling" THEN "waiting"
                   ELSE "stopped"
    /\ UNCHANGED <<fs, log, th, calls, ext, fs0, paths, mainpc, queue, logging>>

(***************************************************************************)
(* Spec: the program.  main() runs on the end-to-end tree of the           *)
(* specification (or without a source folder), the replica does not exist  *)
(* yet, and an external writer changes the source tree while it runs.      *)
(***************************************************************************)
\* the trees below `root` whose files have modification time m
Trees(root, m) ==
    LET P == {root} \cup {root \o r : r \in RelPaths}
    IN  {f \in [P -> {Absent, Dir} \cup {File(c, m) : c \in Contents}] : WellFormed(f)}

NoTree(root) == [p \in {root} \cup {root \o r : r \in RelPaths} |-> Absent]

\* source {a.txt: "hello", sub/b.txt: "world"}
E2ESource ==
    [p \in {source_folder} \cup {source_folder \o r : r \in RelPaths} |->
        IF p \in {source_folder, source_folder \o <<"sub">>} THEN Dir
        ELSE IF p = source_folder \o <<"a.txt">> THEN File("hello", "t_source")
        ELSE IF p = source_folder \o <<"sub", "b.txt">> THEN File("world", "t_source")
        ELSE Absent]

Init ==
    /\ fs \in {E2ESource @@ NoTree(replica_folder),
               NoTree(source_folder) @@ NoTree(replica_folder)}
    /\ fs0 = fs
    /\ paths = MainPaths(<<"data">>)
    /\ log = <<>>
    /\ th = [t \in Threads |-> IdleFrame]
    /\ calls = 0
    /\ ext = <<>>
    /\ mainpc = "start"
    /\ observer = "off"
    /\ queue = <<>>
    /\ logging = FALSE

External ==
    /\ Running
    /\ \E p \in FsPaths :
          \/ ExternalDelete(p)
          \/ ExternalRmtree(p)
          \/ \E c \in Contents : ExternalWrite(p, c)

Next ==
    \/ MainCheckSource \/ MainSetupLogging \/ MainInitialSync
    \/ MainStartObserver \/ MainTimer \/ MainReturn
    \/ Interrupt \/ MainStopObserver \/ MainJoin
    \/ on_any_event \/ ObserverReturn
    \/ External
    \/ \E t \in Threads : sync_folders(t)

Spec == Init /\ [][Next]_vars

(***************************************************************************)
(* SpecSeq: sync_folders called MaxPasses times in a row by one thread,    *)
(* with nothing else touching the trees, from every source tree and every  *)
(* replica tree over FsPaths.                                              *)
(***************************************************************************)
InitialFs ==
    {s @@ r : s \in {f \in Trees(source_folder, "t_source") : isdir(f, source_folder)},
              r \in Trees(replica_folder, "t_replica")}

InitSeq ==
    /\ fs \in InitialFs
    /\ fs0 = fs
    /\ paths = MainPaths(<<"data">>)
    /\ log = <<>>
    /\ th = [t \in Threads |-> IdleFrame]
    /\ calls = 0
    /\ ext = <<>>
    /\ mainpc = "test"
    /\ observer = "off"
    /\ queue = <<>>
    /\ logging = TRUE

SeqCall ==
    /\ th["main"].pc \in {"idle", "done"}
    /\ calls < MaxPasses
    /\ Call("main")
    /\ UNCHANGED procvars

NextSeq == SeqCall \/ sync_folders("main")

SpecSeq == InitSeq /\ [][NextSeq]_vars

(***************************************************************************)
(* SpecE2E: the end-to-end scenario.  sync_folders is called in a row on   *)
(* the end-to-end tree, the replica absent or empty, and between two calls *)
(* the external writer changes the source tree.                            *)
(***************************************************************************)
EmptyTree(root) == [NoTree(root) EXCEPT ![root] = Dir]

InitE2E ==
    /\ fs \in {E2ESource @@ NoTree(replica_folder), E2ESource @@ EmptyTree(replica_folder)}
    /\ fs0 = fs
    /\ paths = MainPaths(<<"data">>)
    /\ log = <<>>
    /\ th = [t \in Threads |-> IdleFrame]
    /\ calls = 0
    /\ ext = <<>>
    /\ mainpc = "test"
    /\ observer = "off"
    /\ queue = <<>>
    /\ logging = TRUE

E2EExternal ==
    /\ th["main"].pc = "done"
    /\ External

NextE2E == SeqCall \/ sync_folders("main") \/ E2EExternal

SpecE2E == InitE2E /\ [][NextE2E]_vars

(***************************************************************************)
(* SpecLive: the program with a timer loop that never ends and threads     *)
(* that are scheduled again and again.  calls stops counting at MaxCalls.  *)
(* The external writer leaves names like the log file's alone: a source    *)
(* file of that name is copied and deleted again by every call, which      *)
(* would make the log grow without bound.                                  *)
(***************************************************************************)
\* MainTimerLive without the call of line 167: the loop only sleeps
MainTimerLive_sleeponly ==
    /\ mainpc = "sleep"
    /\ UNCHANGED vars

\* lines 165-167: while True: time.sleep(30); sync_folders(...)
MainTimerLive ==
    /\ mainpc = "sleep"
    /\ calls' = IF calls < MaxCalls THEN calls + 1 ELSE calls
    /\ th' = [th EXCEPT !["main"] = EntryFrame]
    /\ mainpc' = "in_timer_sync"
    /\ UNCHANGED <<fs, log, ext, fs0, paths, observer, queue, logging>>

ExternalLive ==
    /\ Running
    /\ \E p \in {q \in FsPaths : basename(q) # basename(log_file)} :
          \/ ExternalDelete(p)
          \/ ExternalRmtree(p)
          \/ \E c \in Contents : ExternalWrite(p, c)

\* the steps of the main thread
MainStepLive ==
    \/ MainCheckSource \/ MainSetupLogging \/ MainInitialSync
    \/ MainStartObserver \/ MainTimerLive \/ MainReturn
    \/ MainStopObserver \/ MainJoin
    \/ sync_folders("main")

\* the steps of the observer thread
ObserverStep ==
    \/ on_any_event \/ ObserverReturn
    \/ sync_folders("observer")

NextLive ==
    \/ MainStepLive
    \/ ObserverStep
    \/ Interrupt
    \/ ExternalLive

\* both threads are scheduled as long as they can take a step, and
\* time.sleep(30) returns
SpecLive ==
    /\ Init /\ [][NextLive]_vars
    /\ WF_vars(MainStepLive)
    /\ WF_vars(ObserverStep)

(***************************************************************************)
(* SpecWriter: sync_folders called in a row by one thread, from every      *)
(* source tree and no replica, while the external writer changes the       *)
(* source tree at any moment, also in the middle of a call.                *)
(***************************************************************************)
InitWriter ==
    /\ fs \in {src @@ NoTree(replica_folder) :
                  src \in {f \in Trees(source_folder, "t_source") : isdir(f, source_folder)}}
    /\ fs0 = fs
    /\ paths = MainPaths(<<"data">>)
    /\ log = <<>>
    /\ th = [t \in Threads |-> IdleFrame]
    /\ calls = 0
    /\ ext = <<>>
    /\ mainpc = "test"
    /\ observer = "off"
    /\ queue = <<>>
    /\ logging = TRUE

NextWriter == SeqCall \/ sync_folders("main") \/ External

SpecWriter == InitWriter /\ [][NextWriter]_vars

(***************************************************************************)
(* SpecPaths: main derives its paths (lines 142-146), for every argument   *)
(* of at most MaxArgLen pieces that names an existing directory.           *)
(***************************************************************************)
InitPaths ==
    /\ paths \in {[source_folder |-> a, replica_folder |-> <<>>, log_file_path |-> <<>>] :
                     a \in ArgPaths}
    /\ fs = E2ESource @@ NoTree(replica_folder)
    /\ fs0 = fs
    /\ log = <<>>
    /\ th = [t \in Threads |-> IdleFrame]
    /\ calls = 0
    /\ ext = <<>>
    /\ mainpc = "parse"
    /\ observer = "off"
    /\ queue = <<>>
    /\ logging = FALSE

NextPaths == MainDerivePaths

SpecPaths == InitPaths /\ [][NextPaths]_vars

(***************************************************************************)
(* Vocabulary of the properties.                                           *)
(***************************************************************************)
\* the paths of the file system below the root
Under(root) == {p \in FsPaths : IsPrefix(root, p) /\ p # root}

\* the relative paths of the regular files of file system f below the root
FilesOf(f, root) == {Rel(p) : p \in {q \in Under(root) : isfile(f, q)}}

\* the log file's name
LogName == basename(log_file)

\* the lines thread t's call of sync_folders has logged (no other call is
\* running: SpecSeq, SpecE2E)
Logged(t) == {log[i] : i \in (th[t].log_start + 1)..Len(log)}

Completed(t) == th[t].pc = "done"

\* C1: mirror equivalence: when a call of sync_folders has run to completion
\* with nothing else touching the trees, the relative paths of the files of
\* the replica are those of the files of the source that are not named like
\* the log file, and a file present in both trees has the same content in
\* both.
C1_MirrorEquivalence ==
    Completed("main") =>
        /\ FilesOf(fs, replica_folder)
              = {r \in FilesOf(fs, source_folder) : basename(r) # LogName}
        /\ \A r \in FilesOf(fs, replica_folder) \cap FilesOf(fs, source_folder) :
              fs[replica_folder \o r].content = fs[source_folder \o r].content

\* a first call has completed that copied a new file, updated a changed one
\* and deleted a stale one
C1_Witness ==
    /\ Completed("main") /\ calls = 1
    /\ \E l \in Logged("main") : l.msg = "File copied"
    /\ \E l \in Logged("main") : l.msg = "File updated"
    /\ \E l \in Logged("main") : l.msg = "File deleted"

\* C2: idempotence: a call of sync_folders made right after a completed call,
\* with no change of the file system in between, creates, copies and deletes
\* nothing and logs nothing, whatever the source tree holds (a file named
\* like the log file included).
C2_Idempotence ==
    (Completed("main") /\ calls >= 2) =>
        /\ th["main"].nmut = 0
        /\ Len(log) = th["main"].log_start
        /\ fs = th["main"].fs_start

\* C3: no two calls of sync_folders are in progress at the same time.
C3_OnePassAtATime ==
    ~(Running /\ InPass("main") /\ InPass("observer"))

\* C4: log file exclusion: no phase of sync_folders writes a replica file
\* named like the log file: such a file of the replica is always one that
\* was there before the first call.
C4_LogFileNeverCopied ==
    \A p \in Under(replica_folder) :
        (basename(p) = LogName /\ isfile(fs, p)) => fs[p] = fs0[p]

\* C5: self-healing: a file that is in the source and not in the replica when
\* a call starts is, when the call has completed, in the replica with the
\* content of the source, and the call logged it as "File restored" and not
\* as "File copied".
C5_SelfHealing ==
    Completed("main") =>
        \A r \in (FilesOf(th["main"].fs_start, source_folder)
                    \ FilesOf(th["main"].fs_start, replica_folder)) :
            basename(r) # LogName =>
                /\ isfile(fs, replica_folder \o r)
                /\ fs[replica_folder \o r].content = fs[source_folder \o r].content
                /\ LogLine("File restored", replica_folder \o r) \in Logged("main")
                /\ LogLine("File copied", replica_folder \o r) \notin Logged("main")

\* C6: trigger coalescing: while a call of sync_folders is in progress at
\* most one further call is pending, however many events arrive.
C6_AtMostOnePending ==
    (Running /\ (InPass("main") \/ InPass("observer"))) => Len(queue) <= 1

\* the places of sync_folders that read, fingerprint or copy one file
FileSteps == {"copy1", "hash1", "update1", "restore2"}

\* the I/O errors of the file system calls
OSErrors ==
    {"FileNotFoundError", "FileExistsError", "IsADirectoryError", "NotADirectoryError"}

\* C7: per-entry error isolation: an I/O error raised while one file is
\* read, fingerprinted or copied does not abort the call of sync_folders.
C7_FileErrorDoesNotAbort ==
    \A t \in Threads :
        ~(th[t].pc = "failed" /\ th[t].failed_at \in FileSteps /\ th[t].err \in OSErrors)

\* C8: a failed pass is not fatal: when the call of sync_folders made by the
\* timer loop has ended with an error, the process keeps running (the main
\* thread does not die).
C8_FailedPassNotFatal ==
    [][(/\ mainpc = "in_timer_sync"
        /\ th["main"].pc = "failed"
        /\ th["main"].err \in OSErrors) => mainpc' # "crashed"]_vars

\* C9: pruning: when a call of sync_folders has completed, the replica holds
\* no file whose relative path is not a file of the source and no directory
\* whose relative path does not exist in the source, at any depth.
C9_Pruned ==
    Completed("main") =>
        \A p \in Under(replica_folder) :
            /\ isfile(fs, p) => isfile(fs, replace(p, replica_folder, source_folder))
            /\ isdir(fs, p) => exists(fs, replace(p, replica_folder, source_folder))

\* a call has completed that started with a replica directory, absent from
\* the source, holding a file and a directory
C9_Witness ==
    /\ Completed("main")
    /\ ~exists(fs, source_folder \o <<"sub">>)
    /\ isfile(th["main"].fs_start, replica_folder \o <<"sub", "b.txt">>)
    /\ isdir(th["main"].fs_start, replica_folder \o <<"sub", "sync.log">>)
    /\ LogLine("Directory deleted", replica_folder \o <<"sub">>) \in Logged("main")

\* the end-to-end scenario: the run started with source {a.txt: "hello",
\* sub/b.txt: "world"} and no file in the replica
E2EStart ==
    /\ \A p \in Under(source_folder) \cup {source_folder} : fs0[p] = E2ESource[p]
    /\ \A p \in Under(replica_folder) : ~exists(fs0, p)

\* the first call has completed and nothing else happened
E2EPass1 == E2EStart /\ calls = 1 /\ Completed("main") /\ ext = <<>>

\* sub/b.txt was deleted from the source after the first call, and the second
\* call has completed
E2EPass2 ==
    /\ E2EStart /\ calls = 2 /\ Completed("main")
    /\ ext = <<[op |-> "delete", path |-> source_folder \o <<"sub", "b.txt">>, after |-> 1]>>

ReplicaIs(files) ==
    /\ FilesOf(fs, replica_folder) = DOMAIN files
    /\ \A r \in DOMAIN files : fs[replica_folder \o r].content = files[r]

\* C10 as stated: after pass 1 the replica is {a.txt: "hello", sub/b.txt:
\* "world"}; after sub/b.txt is deleted from the source, pass 2 leaves a.txt
\* only and the directory sub/ is removed from the replica.
C10_AsStated ==
    /\ E2EPass1 => ReplicaIs((<<"a.txt">> :> "hello") @@ (<<"sub", "b.txt">> :> "world"))
    /\ E2EPass2 => /\ ReplicaIs(<<"a.txt">> :> "hello")
                   /\ ~exists(fs, replica_folder \o <<"sub">>)

\* C10 amended: after pass 1 the replica is {a.txt: "hello", sub/b.txt:
\* "world"}; after sub/b.txt is deleted from the source, pass 2 leaves the
\* file a.txt only, and the directory sub/ stays in the replica, empty, as it
\* stays in the source.
C10_EndToEnd ==
    /\ E2EPass1 => ReplicaIs((<<"a.txt">> :> "hello") @@ (<<"sub", "b.txt">> :> "world"))
    /\ E2EPass2 => /\ ReplicaIs(<<"a.txt">> :> "hello")
                   /\ isdir(fs, replica_folder \o <<"sub">>)
                   /\ Children(fs, replica_folder \o <<"sub">>) = {}

C10_Witness == E2EPass2 /\ LogLine("File deleted", replica_folder \o <<"sub", "b.txt">>) \in Logged("main")

\* the relative paths of the directories of file system f below the root
DirsOf(f, root) == {Rel(p) : p \in {q \in Under(root) : isdir(f, q)}}

\* C11: directory mirroring: when a call of sync_folders has run to
\* completion with nothing else touching the trees, the relative paths of
\* the directories of the replica are those of the directories of the source:
\* a source directory without files is in the replica, and no replica
\* directory is left without a source directory.
C11_DirectoriesMirrored ==
    Completed("main") => DirsOf(fs, replica_folder) = DirsOf(fs, source_folder)

\* the relative paths that are regular files in both trees when thread t's
\* call of sync_folders starts, not named like the log file: the files the
\* create/update phase compares
InBoth(t) ==
    {r \in FilesOf(th[t].fs_start, source_folder)
            \cap FilesOf(th[t].fs_start, replica_folder) : basename(r) # LogName}

\* C12: content-only change detection: a replica file that exists when the
\* call starts is overwritten with the source file, and logged as "File
\* updated", if and only if its content differs from the source file's; a
\* replica file with the content of the source file and another modification
\* time is left as it was, modification time included.
C12_ContentOnlyDetection ==
    Completed("main") =>
        \A r \in InBoth("main") :
            LET s == th["main"].fs_start[source_folder \o r]
                d == th["main"].fs_start[replica_folder \o r]
                updated == LogLine("File updated", replica_folder \o r) \in Logged("main")
            IN  /\ updated <=> s.content # d.content
                /\ s.content = d.content => fs[replica_folder \o r] = d
                /\ s.content # d.content => fs[replica_folder \o r] = s

\* a call has completed that found one replica file with the content of the
\* source file and another modification time, and one replica file with
\* another content
C12_Witness ==
    /\ Completed("main")
    /\ \E r \in InBoth("main") :
          /\ th["main"].fs_start[source_folder \o r].content
                = th["main"].fs_start[replica_folder \o r].content
          /\ th["main"].fs_start[source_folder \o r].mtime
                # th["main"].fs_start[replica_folder \o r].mtime
          /\ fs[replica_folder \o r].mtime = "t_replica"
    /\ \E r \in InBoth("main") :
          /\ th["main"].fs_start[source_folder \o r].content
                # th["main"].fs_start[replica_folder \o r].content
          /\ LogLine("File updated", replica_folder \o r) \in Logged("main")

\* the replica is an exact mirror of the source: the same directories, the
\* same files but for those named like the log file, the same contents
Mirror ==
    /\ isdir(fs, replica_folder)
    /\ DirsOf(fs, replica_folder) = DirsOf(fs, source_folder)
    /\ FilesOf(fs, replica_folder)
          = {r \in FilesOf(fs, source_folder) : basename(r) # LogName}
    /\ \A r \in FilesOf(fs, replica_folder) \cap FilesOf(fs, source_folder) :
          fs[replica_folder \o r].content = fs[source_folder \o r].content

\* C13: convergence by the timer: if the process keeps running (the main
\* thread neither returns nor dies), the replica is an exact mirror of the
\* source again and again, so also after the last change of the source,
\* whether or not the observer saw the change.
C13_TimerBackstop == ([]Running) => []<>Mirror

\* the main thread sleeps after a timer call that changed the replica into
\* a mirror of a source changed by the external writer, and the observer
\* thread has never been given an event
C13_Witness ==
    /\ mainpc = "sleep" /\ th["main"].pc = "done" /\ th["main"].nmut > 0
    /\ calls >= 2
    /\ Len(ext) = 1 /\ queue = <<>> /\ th["observer"].pc = "idle"
    /\ Mirror

\* thread t enters sync_folders in this step
Enters(t) == th[t].pc # "check_root" /\ th'[t].pc = "check_root"

\* C14: clean cancellation: once KeyboardInterrupt has been caught in the
\* timer loop, the observer is stopped before main waits for it; from then
\* on no thread enters sync_folders; when main has returned no call of
\* sync_folders is in progress; and main does return.
C14_CleanCancellation ==
    /\ [](mainpc = "join" => observer \in {"stopping", "stopped", "dead"})
    /\ [][(mainpc \in {"join", "exited"}) => (\A t \in Threads : ~Enters(t))]_vars
    /\ [](mainpc = "exited" => \A t \in Threads : ~InPass(t))
    /\ (mainpc = "stop_observer") ~> (mainpc = "exited")

\* KeyboardInterrupt ended a timer call while the observer thread was inside
\* a call of its own: the observer has been told to stop and main waits for
\* it
C14_Witness ==
    /\ mainpc = "join" /\ observer = "stopping" /\ InPass("observer")
    /\ th["main"].err = "KeyboardInterrupt"

\* C15: no source, no action: when source_folder does not exist as main
\* runs, main returns after the test of line 148 and nothing has happened:
\* logging is not configured (the log file is neither created nor written),
\* the file system is as it was (no replica), sync_folders has not been
\* called and the observer has not been started.
C15_NoSourceNoAction ==
    (~exists(fs0, source_folder) /\ mainpc # "start") =>
        /\ mainpc = "exited"
        /\ ~logging /\ log = <<>>
        /\ fs = fs0 /\ ~exists(fs, replica_folder)
        /\ calls = 0 /\ \A t \in Threads : th[t] = IdleFrame
        /\ observer = "off" /\ queue = <<>>

\* main has returned from a run without a source folder
C15_Witness == ~exists(fs0, source_folder) /\ mainpc = "exited"

\* the kinds of log entry that match the change of a node from old to new
MatchingKinds(old, new) ==
    IF old.kind = "absent" /\ new.kind = "dir" THEN {"Directory created"}
    ELSE IF old.kind = "absent" /\ new.kind = "file" THEN {"File copied", "File restored"}
    ELSE IF old.kind = "file" /\ new.kind = "file" THEN {"File updated"}
    ELSE IF old.kind = "file" /\ new.kind = "absent" THEN {"File deleted"}
    ELSE IF old.kind = "dir" /\ new.kind = "absent" THEN {"Directory deleted"}
    ELSE {}

\* C16: every mutation is logged: a step that creates, overwrites or removes
\* a file or directory of the replica appends exactly one line to the log,
\* of the matching kind and naming that path; this holds for every entry a
\* step removes, those below a directory deleted recursively included.
C16_EveryMutationLogged ==
    [][\A p \in Under(replica_folder) \cup {replica_folder} :
          fs'[p] # fs[p] =>
              /\ Len(log') = Len(log) + 1
              /\ log'[Len(log')].path = p
              /\ log'[Len(log')].msg \in MatchingKinds(fs[p], fs'[p])]_vars

\* the string x names the place the string src names or a place below it
Inside(x, src) == IsPrefix(Resolve(src), Resolve(x))

\* the strings x and src name two entries of one directory
Siblings(x, src) ==
    /\ Resolve(x) # Resolve(src)
    /\ Resolve(x) # <<>> /\ Resolve(src) # <<>>
    /\ SubSeq(Resolve(x), 1, Len(Resolve(x)) - 1)
          = SubSeq(Resolve(src), 1, Len(Resolve(src)) - 1)

\* C17: path derivation: for every argument that names an existing
\* directory, with or without a trailing separator, the replica folder and
\* the log file that main derives are siblings of the source folder, and
\* neither lies inside the source tree.
C17_DerivedPathsOutsideSource ==
    mainpc # "parse" =>
        /\ Siblings(paths.replica_folder, paths.source_folder)
        /\ Siblings(paths.log_file_path, paths.source_folder)
        /\ ~Inside(paths.replica_folder, paths.source_folder)
        /\ ~Inside(paths.log_file_path, paths.source_folder)

\* C18: the prune phase spares what the source holds: no step removes a
\* replica file, not named like the log file, whose source file exists at
\* the moment of the removal, also when the external writer adds files to
\* the source while a call of sync_folders is in progress.
C18_PruneSparesPresentFiles ==
    [][\A p \in Under(replica_folder) :
          (isfile(fs, p) /\ ~exists(fs', p) /\ basename(p) # LogName)
              => ~isfile(fs, replace(p, replica_folder, source_folder))]_vars

\* C19: a call never raises: from every source tree and every replica tree,
\* those in which a path is a regular file in one tree and a directory in
\* the other included, a call of sync_folders that nothing interferes with
\* goes through its three walks without an error.
C19_PassNeverRaises ==
    th["main"].pc # "failed"

\* the source tree has not changed since thread t's call of sync_folders
\* started
SourceUnchangedSince(t) ==
    \A p \in Under(source_folder) \cup {source_folder} : th[t].fs_start[p] = fs[p]

\* C20: concurrent calls on an unchanging source: when the call made by the
\* timer loop and a call made by the observer thread run on the same
\* replica, however their steps interleave, and the source has not changed
\* since either started, neither ends with an I/O error, and when both have
\* completed the replica is an exact mirror of the source.
C20_ConcurrentPassesSucceed ==
    (/\ mainpc = "in_timer_sync" /\ observer = "handling"
     /\ SourceUnchangedSince("main") /\ SourceUnchangedSince("observer")) =>
        /\ \A t \in Threads : ~(th[t].pc = "failed" /\ th[t].err \in OSErrors)
        /\ (Completed("main") /\ Completed("observer")) => Mirror

====
